---- MODULE Spec2Model ----
(***************************************************************************)
(* Model of src/slam/EKFSLAM.py: the EKF-SLAM estimator (predict, update,  *)
(* add_landmarks, associate and the motion model f, Fx, Fu).               *)
(*                                                                         *)
(* Number representation.  The program computes in floating point; the     *)
(* model computes exactly, in integers.  Lengths, covariances and noise    *)
(* are integers.  Angles are whole numbers of quarter turns (1 unit is     *)
(* pi/2, so pi is 2 units), which makes cos and sin exact (-1, 0, 1) and   *)
(* keeps every product of the prediction and of the augmentation an        *)
(* integer.  np.allclose on integers below 10^5 is equality.               *)
(*                                                                         *)
(* The Kalman correction (gain from a Cholesky inverse, range and bearing  *)
(* innovations) has no integer value; its result is drawn from a bounded   *)
(* set of same-shape outcomes (KalmanOutcomes), the asserts that follow    *)
(* it in the code are then applied to the drawn value.                     *)
(***************************************************************************)
EXTENDS Integers, Sequences, FiniteSets, TLC

VARIABLES
    Q,          \* EKFSLAM.Q, process noise covariance, 3x3
    R,          \* EKFSLAM.R, measurement noise covariance, 2x2
    do_asso,    \* EKFSLAM.do_asso
    eta,        \* the caller's mean array
    P,          \* the caller's covariance array (predict writes it in place)
    status,     \* "ok", or "aborted" once a call has raised
    step,       \* number of calls made so far
    last        \* the last call: its arguments and what it returned

vars == <<Q, R, do_asso, eta, P, status, step, last>>

----------------------------------------------------------------------------
(* Bounds of the exploration *)

MaxSteps == 2        \* calls per run
MaxLandmarks == 2    \* landmarks in the map

----------------------------------------------------------------------------
(* Vectors and matrices: a vector is a sequence of integers, an r x c      *)
(* matrix is a sequence of r rows, each a sequence of c integers.          *)

\* v[1..n] as a tuple whose entries are computed once
Tuple(v, n) == SubSeq(v, 1, n)

\* the r x c matrix A as a tuple of row tuples
Matrix(A, r, c) == Tuple([i \in 1..r |-> Tuple(A[i], c)], r)

Rows(A) == Len(A)
Cols(A) == IF Len(A) = 0 THEN 0 ELSE Len(A[1])

Zeros(r, c) == Matrix([i \in 1..r |-> [j \in 1..c |-> 0]], r, c)
Eye(r, c) == Matrix([i \in 1..r |-> [j \in 1..c |-> IF i = j THEN 1 ELSE 0]], r, c)

\* A.T for an r x c matrix (c is passed because a 0 x c matrix has no rows)
TransposeOf(A, r, c) == Matrix([j \in 1..c |-> [i \in 1..r |-> A[i][j]]], c, r)

RECURSIVE SumTo(_, _, _)
\* sum over k in 1..n of a[k] * b[k]
SumTo(a, b, n) == IF n = 0 THEN 0 ELSE SumTo(a, b, n - 1) + a[n] * b[n]

\* A @ B where A is r x m and B is m x c
MatMulOf(A, B, r, m, c) ==
    Matrix([i \in 1..r |-> [j \in 1..c |-> SumTo(A[i], [k \in 1..m |-> B[k][j]], m)]],
           r, c)

\* A @ x for a vector x
MatVec(A, x) == Tuple([i \in 1..Rows(A) |-> SumTo(A[i], x, Len(x))], Rows(A))

MatAdd(A, B) ==
    Matrix([i \in 1..Rows(A) |-> [j \in 1..Cols(A) |-> A[i][j] + B[i][j]]], Rows(A), Cols(A))
VecAdd(a, b) == Tuple([i \in 1..Len(a) |-> a[i] + b[i]], Len(a))

\* A[r1-1:r2, c1-1:c2] in numpy terms: rows r1..r2 and columns c1..c2 (1-based)
Slice(A, r1, r2, c1, c2) ==
    Matrix([i \in 1..(r2 - r1 + 1) |-> [j \in 1..(c2 - c1 + 1) |-> A[r1 + i - 1][c1 + j - 1]]],
           r2 - r1 + 1, c2 - c1 + 1)

\* A with A[r1-1:.., c1-1:..] = B (an in-place block assignment)
SetBlock(A, r1, c1, B, br, bc) ==
    Matrix([i \in 1..Rows(A) |-> [j \in 1..Cols(A) |->
               IF i >= r1 /\ i < r1 + br /\ j >= c1 /\ j < c1 + bc
               THEN B[i - r1 + 1][j - c1 + 1] ELSE A[i][j]]],
           Rows(A), Cols(A))

IsSquare(A) == \A i \in 1..Rows(A) : Len(A[i]) = Rows(A)

\* np.allclose(A, A.T) on a square integer matrix
IsSymmetric(A) ==
    /\ IsSquare(A)
    /\ \A i \in 1..Rows(A) : \A j \in 1..Rows(A) : A[i][j] = A[j][i]

Abs(x) == IF x < 0 THEN -x ELSE x

RECURSIVE Gcd(_, _)
Gcd(a, b) == IF b = 0 THEN a ELSE Gcd(b, a % b)

RECURSIVE GcdTo(_, _)
\* gcd of the absolute values of v[1..n]
GcdTo(v, n) == IF n = 0 THEN 0 ELSE Gcd(GcdTo(v, n - 1), Abs(v[n]))

\* A divided by the gcd of its entries (a positive factor: its eigenvalue
\* signs are those of A)
Reduce(A) ==
    LET n == Rows(A)
        g == GcdTo([i \in 1..n |-> GcdTo(A[i], n)], n)
    IN  IF g <= 1 THEN A ELSE Matrix([i \in 1..n |-> [j \in 1..n |-> A[i][j] \div g]], n, n)

\* A[1][1] times the Schur complement of A[1][1] in the symmetric matrix A
Schur(A) ==
    LET n == Rows(A)
    IN  Reduce(Matrix([i \in 1..(n - 1) |-> [j \in 1..(n - 1) |->
                   A[1][1] * A[i + 1][j + 1] - A[i + 1][1] * A[1][j + 1]]], n - 1, n - 1))

RECURSIVE AllEigPositive(_)
\* np.all(np.linalg.eigvals(A) > 0) for a symmetric A: positive definite
AllEigPositive(A) ==
    IF Rows(A) = 0 THEN TRUE
    ELSE A[1][1] > 0 /\ AllEigPositive(Schur(A))

RECURSIVE AllEigNonNegative(_)
\* np.all(np.linalg.eigvals(A) >= 0) for a symmetric A: positive semi-definite
AllEigNonNegative(A) ==
    IF Rows(A) = 0 THEN TRUE
    ELSE IF A[1][1] > 0 THEN AllEigNonNegative(Schur(A))
    ELSE /\ A[1][1] = 0
         /\ \A j \in 1..Rows(A) : A[1][j] = 0
         /\ AllEigNonNegative(Slice(A, 2, Rows(A), 2, Rows(A)))

----------------------------------------------------------------------------
(* Angles, in quarter turns *)

\* np.pi
Pi == 2

Cos(q) == LET r == q % 4 IN IF r = 0 THEN 1 ELSE IF r = 2 THEN -1 ELSE 0
Sin(q) == LET r == q % 4 IN IF r = 1 THEN 1 ELSE IF r = 3 THEN -1 ELSE 0

\* utils.wrapToPi: the angle brought into (-pi, pi]
wrapToPi(q) == LET r == q % (2 * Pi) IN IF r > Pi THEN r - 2 * Pi ELSE r

\* utils.rotmat2d
rotmat2d(q) == << <<Cos(q), -Sin(q)>>, <<Sin(q), Cos(q)>> >>

\* EKFSLAM.sensor_offset (the field's default)
sensor_offset == <<0, 0>>

\* the NIS returned when no correction was made
NeutralNIS == 1

\* JCBB's "no association" entry
NewLmk == -1

----------------------------------------------------------------------------
(* Motion model *)

\* EKFSLAM.f
f(x, u) ==
    LET uprev == u[1]
        vprev == u[2]
        phiprev == wrapToPi(u[3])
        xprev == x[1]
        yprev == x[2]
        psiprev == wrapToPi(x[3])
    IN  << xprev + uprev * Cos(psiprev) - vprev * Sin(psiprev),
           yprev + uprev * Sin(psiprev) + vprev * Sin(psiprev),
           phiprev + psiprev >>

\* EKFSLAM.Fx
Fx(x, u) ==
    LET uk == u[1]
        vk == u[2]
        psik == x[3]
        arg1 == -uk * Sin(psik) - vk * Cos(psik)
        arg2 == uk * Cos(psik) - vk * Sin(psik)
    IN  << <<1, 0, arg1>>, <<0, 1, arg2>>, <<0, 0, 1>> >>

\* EKFSLAM.Fu
Fu(x, u) ==
    LET psik == x[3]
    IN  << <<Cos(psik), -Sin(psik), 0>>, <<Sin(psik), Cos(psik), 0>>, <<0, 0, 1>> >>

----------------------------------------------------------------------------
(* predict *)

NumLmk(e) == (Len(e) - 3) \div 2

\* PredictMean with the landmark copy etapred[3:] = eta[3:] left out of an
\* array allocated as zeros
PredictMeanNoCopy(etaIn, z_odo) ==
    LET xpred == f(SubSeq(etaIn, 1, 3), z_odo)
    IN  Tuple([i \in 1..Len(etaIn) |-> IF i <= 3 THEN xpred[i] ELSE 0], Len(etaIn))

\* EKFSLAM.predict, the mean: etapred[:3] = f(x, z_odo), etapred[3:] = eta[3:]
PredictMean(etaIn, z_odo) ==
    LET x == SubSeq(etaIn, 1, 3)
        xpred == f(x, z_odo)
    IN  Tuple([i \in 1..Len(etaIn) |-> IF i <= 3 THEN xpred[i] ELSE etaIn[i]], Len(etaIn))

\* PredictCov with only the robot-robot block propagated: the robot-map and
\* map-robot blocks keep their input values
PredictCovNoCross(PIn, x, z_odo) ==
    LET FxM == Fx(x, z_odo)
        FuM == Fu(x, z_odo)
        FQF == MatMulOf(MatMulOf(FuM, Q, 3, 3, 3), TransposeOf(FuM, 3, 3), 3, 3, 3)
        rr == MatAdd(MatMulOf(MatMulOf(FxM, Slice(PIn, 1, 3, 1, 3), 3, 3, 3),
                              TransposeOf(FxM, 3, 3), 3, 3, 3), FQF)
    IN  SetBlock(PIn, 1, 1, rr, 3, 3)

\* EKFSLAM.predict, the covariance: the three block assignments, made one
\* after the other on the array PIn, each reading the array as the previous
\* one left it
PredictCov(PIn, x, z_odo) ==
    LET n == Rows(PIn)
        FxM == Fx(x, z_odo)
        FuM == Fu(x, z_odo)
        FQF == MatMulOf(MatMulOf(FuM, Q, 3, 3, 3), TransposeOf(FuM, 3, 3), 3, 3, 3)
        rr == MatAdd(MatMulOf(MatMulOf(FxM, Slice(PIn, 1, 3, 1, 3), 3, 3, 3),
                              TransposeOf(FxM, 3, 3), 3, 3, 3), FQF)
        P1 == SetBlock(PIn, 1, 1, rr, 3, 3)
        rm == MatMulOf(FxM, Slice(P1, 1, 3, 4, n), 3, 3, n - 3)
        P2 == SetBlock(P1, 1, 4, rm, 3, n - 3)
        mr == MatMulOf(Slice(P2, 4, n, 1, 3), TransposeOf(FxM, 3, 3), n - 3, 3, 3)
    IN  SetBlock(P2, 4, 1, mr, n - 3, 3)

\* predict returning the robot part only: the pose and its 3 x 3 covariance
predictPoseOnly(etaIn, PIn, z_odo) ==
    IF ~ ( /\ IsSymmetric(PIn)
           /\ AllEigNonNegative(PIn)
           /\ Len(etaIn) = Rows(PIn) )
    THEN [ok |-> FALSE, etapred |-> etaIn, P |-> PIn]
    ELSE LET etapred == f(SubSeq(etaIn, 1, 3), z_odo)
             Pnew == Slice(PredictCov(PIn, SubSeq(etaIn, 1, 3), z_odo), 1, 3, 1, 3)
         IN  [ok |-> /\ IsSymmetric(Pnew)
                     /\ AllEigPositive(Pnew)
                     /\ Len(etapred) = Rows(Pnew),
              etapred |-> etapred,
              P |-> Pnew]

\* EKFSLAM.predict: ok tells whether the call returned, etapred is the
\* returned mean and P the contents of the array PIn when the call ended
predict(etaIn, PIn, z_odo) ==
    IF ~ ( /\ IsSymmetric(PIn)
           /\ AllEigNonNegative(PIn)
           /\ Len(etaIn) = Rows(PIn) )
    THEN [ok |-> FALSE, etapred |-> etaIn, P |-> PIn]
    ELSE LET etapred == PredictMean(etaIn, z_odo)
             Pnew == PredictCov(PIn, SubSeq(etaIn, 1, 3), z_odo)
         IN  [ok |-> /\ IsSymmetric(Pnew)
                     /\ AllEigPositive(Pnew)
                     /\ Len(etapred) = Rows(Pnew),
              etapred |-> etapred,
              P |-> Pnew]

----------------------------------------------------------------------------
(* h_jac *)

\* indm with the factor 2 of the landmark stride left out
indmNoStride(i) == 3 + i

\* EKFSLAM.h_jac, indm: the first column (0-based) of landmark i in H
indm(i) == 3 + i * 2

\* EKFSLAM.h_jac, the blocks Hx (2 x 3) and Hm (2 x 2) of landmark i
\* (0-based).  The code divides the range row by zpred_r[i] and the bearing
\* row by zpred_r[i]**2; the norm is not an integer, so the rows are kept
\* here as their numerators: an entry is zero here exactly when it is zero
\* in the code, for zpred_r[i] > 0
h_jacBlocks(etaIn, i) ==
    LET x == SubSeq(etaIn, 1, 3)
        Rot == rotmat2d(x[3])
        Rpihalf == rotmat2d(1)
        delta_m == <<etaIn[3 + 2 * i + 1] - x[1], etaIn[3 + 2 * i + 2] - x[2]>>
        offs == MatVec(Rot, sensor_offset)
        zc == <<delta_m[1] - offs[1], delta_m[2] - offs[2]>>
        col2 == MatVec(Rpihalf, delta_m)
        jac_z_cb == << <<-1, 0, -col2[1]>>, <<0, -1, -col2[2]>> >>
        zcRpiT == MatMulOf(<<zc>>, TransposeOf(Rpihalf, 2, 2), 1, 2, 2)
        zcRpi == MatMulOf(<<zc>>, Rpihalf, 1, 2, 2)
    IN  [Hx |-> << MatMulOf(<<zc>>, jac_z_cb, 1, 2, 3)[1],
                   MatMulOf(zcRpiT, jac_z_cb, 1, 2, 3)[1] >>,
         Hm |-> << zc, <<-zcRpi[1][1], -zcRpi[1][2]>> >>]

RECURSIVE h_jacLoop(_, _, _)
\* EKFSLAM.h_jac, the loop over the landmarks i = 0 .. n - 1 on the array H:
\* H[indxs, 0:3] = Hx and H[indxs, indms] = Hm
h_jacLoop(etaIn, H, n) ==
    IF n = 0 THEN H
    ELSE LET i == n - 1
             b == h_jacBlocks(etaIn, i)
             H1 == SetBlock(h_jacLoop(etaIn, H, n - 1), 2 * i + 1, 1, b.Hx, 2, 3)
         IN  SetBlock(H1, 2 * i + 1, indm(i) + 1, b.Hm, 2, 2)

\* EKFSLAM.h_jac: H = np.zeros((2 * numM, 3 + 2 * numM)), then the loop
h_jac(etaIn) ==
    LET numM == (Len(etaIn) - 3) \div 2
    IN  h_jacLoop(etaIn, Zeros(2 * numM, 3 + 2 * numM), numM)

----------------------------------------------------------------------------
(* add_landmarks *)

\* AddedMean with the new landmarks put right after the pose, before the
\* landmarks already in the map
AddedMeanAfterPose(etaIn, zIn) ==
    LET psi == etaIn[3]
        lmnewOf(j) ==
            LET zrj == zIn[2 * j - 1]
                zphij == zIn[2 * j]
                z_c == <<zrj * Cos(zphij), zrj * Sin(zphij)>>
            IN  VecAdd(VecAdd(<<etaIn[1], etaIn[2]>>, MatVec(rotmat2d(psi), z_c)),
                       MatVec(rotmat2d(etaIn[3]), sensor_offset))
        lmnew == Tuple([i \in 1..(2 * (Len(zIn) \div 2)) |->
                          lmnewOf((i + 1) \div 2)[((i - 1) % 2) + 1]], 2 * (Len(zIn) \div 2))
    IN  SubSeq(etaIn, 1, 3) \o lmnew \o SubSeq(etaIn, 4, Len(etaIn))

\* EKFSLAM.add_landmarks, the mean: eta with the new landmarks appended
AddedMean(etaIn, zIn) ==
    LET numLmk == Len(zIn) \div 2
        psi == etaIn[3]
        sensor_offset_world == MatVec(rotmat2d(etaIn[3]), sensor_offset)
        lmnewOf(j) ==
            LET zrj == zIn[2 * j - 1]
                zphij == zIn[2 * j]
                z_c == <<zrj * Cos(zphij), zrj * Sin(zphij)>>
            IN  VecAdd(VecAdd(<<etaIn[1], etaIn[2]>>, MatVec(rotmat2d(psi), z_c)),
                       sensor_offset_world)
        lmnew == Tuple([i \in 1..(2 * numLmk) |-> lmnewOf((i + 1) \div 2)[((i - 1) % 2) + 1]],
                       2 * numLmk)
    IN  etaIn \o lmnew

\* Gz_c with the transpose of the second Gz left out: Gz @ R @ Gz
Gz_cNoTranspose(psi, zrj, zphij) ==
    LET rot == rotmat2d(zphij + psi)
        IGz == << <<1, 0>>, <<0, zrj>> >>
        Gz == MatMulOf(rot, IGz, 2, 2, 2)
    IN  MatMulOf(MatMulOf(Gz, R, 2, 2, 2), Gz, 2, 2, 2)

\* EKFSLAM.add_landmarks, Gz_c = Gz @ R @ Gz.T: the noise of measurement
\* (zrj, zphij) in the world frame
Gz_c(psi, zrj, zphij) ==
    LET rot == rotmat2d(zphij + psi)
        IGz == << <<1, 0>>, <<0, zrj>> >>
        Gz == MatMulOf(rot, IGz, 2, 2, 2)
    IN  MatMulOf(MatMulOf(Gz, R, 2, 2, 2), TransposeOf(Gz, 2, 2), 2, 2, 2)

\* EKFSLAM.add_landmarks, the covariance Padded
AddedCov(etaIn, PIn, zIn) ==
    LET n == Rows(PIn)
        numLmk == Len(zIn) \div 2
        m == 2 * numLmk
        psi == etaIn[3]
        sensor_offset_world_der == MatVec(rotmat2d(etaIn[3] + 1), sensor_offset)
        lm(i) == (i + 1) \div 2
        at(i) == ((i - 1) % 2) + 1
        zr(j) == zIn[2 * j - 1]
        zphi(j) == zIn[2 * j]
        vec(j) == <<-Sin(zphi(j) + psi), Cos(zphi(j) + psi)>>
        Gx == Tuple([i \in 1..m |->
                      << Eye(2, 2)[at(i)][1], Eye(2, 2)[at(i)][2],
                         zr(lm(i)) * vec(lm(i))[at(i)] + sensor_offset_world_der[at(i)] >>], m)
        Rall == Matrix([i \in 1..m |-> [k \in 1..m |->
                          IF lm(i) = lm(k)
                          THEN Gz_c(psi, zr(lm(i)), zphi(lm(i)))[at(i)][at(k)]
                          ELSE 0]], m, m)
        GxT == TransposeOf(Gx, m, 3)
        block2 == MatAdd(MatMulOf(MatMulOf(Gx, Slice(PIn, 1, 3, 1, 3), m, 3, 3), GxT, m, 3, m),
                         Rall)
        blockdiag == Matrix([i \in 1..(n + m) |-> [k \in 1..(n + m) |->
                               IF i <= n /\ k <= n THEN PIn[i][k]
                               ELSE IF i > n /\ k > n THEN block2[i - n][k - n]
                               ELSE 0]], n + m, n + m)
        Pcolon_x == Slice(PIn, 1, n, 1, 3)
        topright == MatMulOf(Pcolon_x, GxT, n, 3, m)
        Padded1 == SetBlock(blockdiag, 1, n + 1, topright, n, m)
    IN  SetBlock(Padded1, n + 1, 1,
                 TransposeOf(Slice(Padded1, 1, n, n + 1, n + m), n, m), m, n)

\* EKFSLAM.add_landmarks: ok tells whether the call returned
add_landmarks(etaIn, PIn, zIn) ==
    LET etaadded == AddedMean(etaIn, zIn)
        Padded == AddedCov(etaIn, PIn, zIn)
    IN  [ok |-> /\ Len(zIn) % 2 = 0
                /\ Len(etaadded) = Rows(Padded) /\ IsSquare(Padded)
                /\ IsSymmetric(Padded)
                /\ AllEigNonNegative(Padded),
         etaadded |-> etaadded,
         Padded |-> Padded]

----------------------------------------------------------------------------
(* associate and update *)

\* what associate returns when do_asso is off (the function falls off its end)
None == [kind |-> "None", zass |-> <<>>, zbarinds |-> <<>>, a |-> <<>>]

\* z.ravel(): the k x 2 measurements as a flat vector
ravel(z) == Tuple([i \in 1..(2 * Len(z)) |-> z[(i + 1) \div 2][((i - 1) % 2) + 1]], 2 * Len(z))

\* JCBB: the association vectors its contract allows for k measurements and
\* numLmk landmarks: one entry per measurement, each a landmark index
\* (0-based) or -1, and no landmark claimed by two measurements
JCBB(k, numLmk) ==
    { a \in [1..k -> {NewLmk} \cup (0..(numLmk - 1))] :
        \A i \in 1..k : \A j \in 1..k : (i # j /\ a[i] # NewLmk) => a[i] # a[j] }

\* v[mask] of numpy: the entries of v whose mask entry is true, in order
RECURSIVE Masked(_, _, _)
Masked(v, mask, n) ==
    IF n = 0 THEN <<>>
    ELSE IF mask[n] THEN Append(Masked(v, mask, n - 1), v[n])
    ELSE Masked(v, mask, n - 1)

\* EKFSLAM.associate, given the vector a that JCBB returned: the associated
\* measurements zass and the rows zbarinds (0-based) of zpred, H and S that
\* they are matched to; None when do_asso is off
associate(z, a) ==
    IF do_asso
    THEN LET zinds == [i \in 1..Len(z) |-> a[(i + 1) \div 2] > -1]
             zass == Masked(z, zinds, Len(z))
             matched == Masked(a, [i \in 1..Len(a) |-> a[i] > -1], Len(a))
             zbarinds == Tuple([i \in 1..Len(zass) |->
                                  IF i % 2 = 1 THEN 2 * matched[(i + 1) \div 2]
                                  ELSE 2 * matched[(i + 1) \div 2] + 1], Len(zass))
         IN  [kind |-> "tuple", zass |-> zass, zbarinds |-> zbarinds, a |-> a]
    ELSE None

\* The values the Kalman correction may return for (eta + W @ v, Pupd, NIS):
\* the gain W and the innovation v are real-valued, so the correction is a
\* choice among outcomes of the input's shape
KalmanOutcomes(etaIn, PIn) ==
    LET n == Len(etaIn)
        e1 == Tuple([i \in 1..n |-> IF i = 1 THEN 1 ELSE 0], n)
    IN  { [Wv |-> e1, Pupd |-> PIn, NIS |-> 2],
          [Wv |-> Zeros(1, n)[1], Pupd |-> Eye(n, n), NIS |-> 0] }

\* NewMeasurements keeping only the first new measurement
NewMeasurementsFirstOnly(z, a) ==
    LET is_new_lmk == [i \in 1..Len(a) |-> a[i] = -1]
        z_new_inds == [i \in 1..Len(z) |-> is_new_lmk[(i + 1) \div 2]]
        all == Masked(z, z_new_inds, Len(z))
    IN  IF Len(all) > 2 THEN SubSeq(all, 1, 2) ELSE all

\* EKFSLAM.update, z[z_new_inds]: the measurements whose entry in a is -1
NewMeasurements(z, a) ==
    LET is_new_lmk == [i \in 1..Len(a) |-> a[i] = -1]
        z_new_inds == [i \in 1..Len(z) |-> is_new_lmk[(i + 1) \div 2]]
    IN  Masked(z, z_new_inds, Len(z))

\* AllNew filled with 0 (np.zeros) where -1 is meant
AllNewZeros(zIn) == Tuple([i \in 1..Len(zIn) |-> 0], Len(zIn))

\* EKFSLAM.update, the map-is-empty branch: a = np.full(z.shape[0], -1)
AllNew(zIn) == Tuple([i \in 1..Len(zIn) |-> -1], Len(zIn))

NoAug == [called |-> FALSE, ok |-> FALSE, eta_in |-> <<>>, P_in |-> <<>>,
          z |-> <<>>, eta_out |-> <<>>, P_out |-> <<>>]

Aborted(etaIn, PIn, a, aug) ==
    [ok |-> FALSE, etaupd |-> etaIn, Pupd |-> PIn, NIS |-> 0, a |-> a, aug |-> aug]

\* EKFSLAM.update from the correction's result (etaupd, Pupd, NIS, a) on:
\* the creation of the new landmarks and the closing asserts
Augment(etaIn, PIn, etaupd, Pupd, NIS, z, a) ==
    LET z_new == NewMeasurements(z, a)
        call == do_asso /\ \E i \in 1..Len(a) : a[i] = -1
        added == add_landmarks(etaupd, Pupd, z_new)
        aug == IF call
               THEN [called |-> TRUE, ok |-> added.ok, eta_in |-> etaupd, P_in |-> Pupd,
                     z |-> z_new, eta_out |-> added.etaadded, P_out |-> added.Padded]
               ELSE NoAug
        etaret == IF call THEN added.etaadded ELSE etaupd
        Pret == IF call THEN added.Padded ELSE Pupd
    IN  IF call /\ ~ added.ok THEN Aborted(etaIn, PIn, a, aug)
        ELSE IF ~ (IsSymmetric(Pret) /\ AllEigNonNegative(Pret))
        THEN Aborted(etaIn, PIn, a, aug)
        ELSE [ok |-> TRUE, etaupd |-> etaret, Pupd |-> Pret, NIS |-> NIS, a |-> a,
              aug |-> aug]

\* EKFSLAM.update: zIn is the k x 2 measurement array, aJCBB the vector JCBB
\* returns when it is called and kal the outcome of the correction when one
\* is made; ok tells whether the call returned
update(etaIn, PIn, zIn, aJCBB, kal) ==
    LET numLmk == (Len(etaIn) - 3) \div 2
    IN  IF (Len(etaIn) - 3) % 2 # 0 THEN Aborted(etaIn, PIn, <<>>, NoAug)
        ELSE IF numLmk > 0
        THEN LET z == ravel(zIn)
                 asso == associate(z, aJCBB)
             IN  IF asso.kind = "None" THEN Aborted(etaIn, PIn, <<>>, NoAug)
                 ELSE IF Len(asso.zass) = 0
                 THEN Augment(etaIn, PIn, etaIn, PIn, NeutralNIS, z, asso.a)
                 ELSE LET etaupd == VecAdd(etaIn, kal.Wv)
                      IN  IF ~ (IsSymmetric(kal.Pupd) /\ AllEigPositive(kal.Pupd))
                          THEN Aborted(etaIn, PIn, asso.a, NoAug)
                          ELSE Augment(etaIn, PIn, etaupd, kal.Pupd, kal.NIS, z, asso.a)
        ELSE Augment(etaIn, PIn, etaIn, PIn, NeutralNIS, ravel(zIn), AllNew(zIn))

----------------------------------------------------------------------------
(* NEESes.  A NEES value is a quotient of integers, or one of the floating *)
(* point values inf, -inf and nan.  The heading is in quarter turns and    *)
(* the heading row and column of P in the same unit: the quotients are     *)
(* those of the code, which do not depend on the unit.                     *)

Num(n, d) == [kind |-> "num", num |-> n, den |-> d]
Inf == [kind |-> "inf", num |-> 1, den |-> 0]
NegInf == [kind |-> "-inf", num |-> -1, den |-> 0]
NaN == [kind |-> "nan", num |-> 0, den |-> 0]

\* a / b on numpy scalars: a zero divisor gives inf, -inf or nan (and a
\* warning), not a ZeroDivisionError
TrueDivide(a, b) ==
    IF b # 0 THEN Num(a, b)
    ELSE IF a > 0 THEN Inf ELSE IF a < 0 THEN NegInf ELSE NaN

\* v >= 0 on a NEES value
NonNegative(v) ==
    IF v.kind = "num" THEN v.num * v.den >= 0
    ELSE v.kind = "inf"

Det2(A) == A[1][1] * A[2][2] - A[1][2] * A[2][1]

Det3(A) ==
    A[1][1] * (A[2][2] * A[3][3] - A[2][3] * A[3][2])
    - A[1][2] * (A[2][1] * A[3][3] - A[2][3] * A[3][1])
    + A[1][3] * (A[2][1] * A[3][2] - A[2][2] * A[3][1])

\* the cofactor of A[i][j] in the n x n matrix A, n = 2 or 3
Cofactor(A, n, i, j) ==
    LET rs == Tuple([k \in 1..(n - 1) |-> IF k < i THEN k ELSE k + 1], n - 1)
        cs == Tuple([k \in 1..(n - 1) |-> IF k < j THEN k ELSE k + 1], n - 1)
        sign == IF (i + j) % 2 = 0 THEN 1 ELSE -1
    IN  IF n = 2 THEN sign * A[rs[1]][cs[1]]
        ELSE sign * (A[rs[1]][cs[1]] * A[rs[2]][cs[2]] - A[rs[1]][cs[2]] * A[rs[2]][cs[1]])

\* d @ np.linalg.solve(A, d) times det(A), for a nonsingular n x n matrix A
SolveDot(A, d, n) ==
    LET adj == Matrix([i \in 1..n |-> [j \in 1..n |-> Cofactor(A, n, j, i)]], n, n)
    IN  SumTo(d, MatVec(adj, d), n)

\* what a NEESes call that raised leaves
Raised == [ok |-> FALSE, NEESes |-> <<>>]

\* EKFSLAM.NEESes: ok tells whether the call returned, NEESes is the
\* returned array [all, position, heading]
NEESes(x, Pm, x_gt) ==
    IF ~ (Len(x) = 3 /\ Rows(Pm) = 3 /\ IsSquare(Pm) /\ Len(x_gt) = 3) THEN Raised
    ELSE LET d_x == <<x[1] - x_gt[1], x[2] - x_gt[2], wrapToPi(x[3] - x_gt[3])>>
             d_p == SubSeq(d_x, 1, 2)
             P_p == Slice(Pm, 1, 2, 1, 2)
             d_heading == d_x[3]
             P_heading == Pm[3][3]
         IN  IF ~ (-Pi <= d_x[3] /\ d_x[3] <= Pi) THEN Raised
             ELSE IF Det3(Pm) = 0 THEN Raised
             ELSE IF Det2(P_p) = 0 THEN Raised
             ELSE LET NEES_all == Num(SolveDot(Pm, d_x, 3), Det3(Pm))
                      NEES_pos == Num(SolveDot(P_p, d_p, 2), Det2(P_p))
                      NEES_heading == TrueDivide(d_heading * d_heading, P_heading)
                      arr == <<NEES_all, NEES_pos, NEES_heading>>
                      res == Tuple([i \in 1..3 |->
                                      IF arr[i].kind = "nan" THEN Num(1, 1) ELSE arr[i]], 3)
                  IN  IF \A i \in 1..3 : NonNegative(res[i])
                      THEN [ok |-> TRUE, NEESes |-> res]
                      ELSE Raised

----------------------------------------------------------------------------
(* The caller: one filter, one (eta, P) pair, a sequence of predict and    *)
(* update calls, each fed the pair the previous one returned.  A call that *)
(* raises ends the run.                                                    *)

\* odometry increments (forward, lateral, heading increment)
Odometries == { <<1, 0, 0>>, <<0, 1, 1>>, <<1, 1, 2>> }

\* measurement arrays, k x 2, of (range, bearing) rows
MeasurementArrays == { <<>>, << <<1, 0>> >>, << <<2, 1>>, <<1, 0>> >> }

\* process noise covariances
ProcessNoises == { Eye(3, 3), << <<1, 0, 0>>, <<0, 1, 0>>, <<0, 0, 0>> >> }

\* the estimates (eta, P) the caller starts from: pose only, with a zero,
\* a unit, an asymmetric and an indefinite covariance, and one with a landmark
\* already in the map
InitialEstimates ==
    { <<<<0, 0, 0>>, Zeros(3, 3)>>,
      <<<<0, 0, 0>>, Eye(3, 3)>>,
      <<<<0, 0, 0>>, << <<1, 1, 0>>, <<0, 1, 0>>, <<0, 0, 1>> >> >>,
      <<<<0, 0, 0>>, << <<1, 0, 0>>, <<0, -1, 0>>, <<0, 0, 1>> >> >>,
      <<<<0, 0, 0, 2, 0>>, Eye(5, 5)>> }

NoCall == [op |-> "none", eta_in |-> <<>>, P_in |-> <<>>, z_odo |-> <<>>, z |-> <<>>,
           NIS |-> 0, a |-> <<>>, aug |-> NoAug, H |-> <<>>, x_gt |-> <<>>, NEESes |-> <<>>]

Init ==
    /\ Q \in ProcessNoises
    /\ R = Eye(2, 2)
    /\ do_asso \in BOOLEAN
    /\ \E e \in InitialEstimates : eta = e[1] /\ P = e[2]
    /\ status = "ok"
    /\ step = 0
    /\ last = NoCall

\* the number of landmarks an update call with these inputs creates
NewCount(zIn, aJCBB) ==
    IF ~ do_asso THEN 0
    ELSE IF NumLmk(eta) = 0 THEN Len(zIn)
    ELSE Cardinality({i \in 1..Len(aJCBB) : aJCBB[i] = -1})

Predict(z_odo) ==
    /\ status = "ok"
    /\ step < MaxSteps
    /\ \E r \in {predict(eta, P, z_odo)} :
           /\ eta' = IF r.ok THEN r.etapred ELSE eta
           /\ P' = r.P
           /\ status' = IF r.ok THEN "ok" ELSE "aborted"
           /\ last' = [op |-> "predict", eta_in |-> eta, P_in |-> P, z_odo |-> z_odo,
                       z |-> <<>>, NIS |-> 0, a |-> <<>>, aug |-> NoAug, H |-> <<>>,
                       x_gt |-> <<>>, NEESes |-> <<>>]
    /\ step' = step + 1
    /\ UNCHANGED <<Q, R, do_asso>>

Update(zIn, aJCBB, kal) ==
    /\ status = "ok"
    /\ step < MaxSteps
    /\ NumLmk(eta) + NewCount(zIn, aJCBB) <= MaxLandmarks
    /\ \E r \in {update(eta, P, zIn, aJCBB, kal)} :
           /\ eta' = IF r.ok THEN r.etaupd ELSE eta
           /\ P' = IF r.ok THEN r.Pupd ELSE P
           /\ status' = IF r.ok THEN "ok" ELSE "aborted"
           /\ last' = [op |-> "update", eta_in |-> eta, P_in |-> P, z_odo |-> <<>>,
                       z |-> zIn, NIS |-> r.NIS, a |-> r.a, aug |-> r.aug,
                       H |-> IF NumLmk(eta) > 0 THEN h_jac(eta) ELSE <<>>,
                       x_gt |-> <<>>, NEESes |-> <<>>]
    /\ step' = step + 1
    /\ UNCHANGED <<Q, R, do_asso>>

\* the association vectors JCBB can return in this call (it runs only with
\* landmarks in the map and do_asso on)
JCBBResults(zIn) ==
    IF NumLmk(eta) > 0 /\ do_asso THEN JCBB(Len(zIn), NumLmk(eta)) ELSE { <<>> }

\* the outcomes of the correction in this call (made only when a measurement
\* is associated)
Corrections(aJCBB) ==
    IF \E i \in 1..Len(aJCBB) : aJCBB[i] > -1 THEN KalmanOutcomes(eta, P)
    ELSE { [Wv |-> <<>>, Pupd |-> <<>>, NIS |-> 0] }

Next ==
    \/ \E z_odo \in Odometries : Predict(z_odo)
    \/ \E zIn \in MeasurementArrays :
         \E aJCBB \in JCBBResults(zIn) :
           \E kal \in Corrections(aJCBB) : Update(zIn, aJCBB, kal)

Spec == Init /\ [][Next]_vars

----------------------------------------------------------------------------
(* The validation of a pose estimate: NEESes applied to a pose, its        *)
(* covariance and a ground truth pose.                                     *)

\* pose estimates
NEESPoses == { <<0, 0, 0>>, <<1, 0, 1>> }

\* pose covariances: positive definite ones, ones with a zero heading
\* variance (singular, and indefinite but regular) and one with a negative
\* heading variance
NEESCovariances ==
    { Eye(3, 3),
      << <<2, 0, 1>>, <<0, 2, 0>>, <<1, 0, 1>> >>,
      Zeros(3, 3),
      << <<1, 0, 0>>, <<0, 1, 0>>, <<0, 0, 0>> >>,
      << <<1, 0, 0>>, <<0, 1, 1>>, <<0, 1, 0>> >>,
      << <<1, 0, 0>>, <<0, 1, 0>>, <<0, 0, -1>> >> }

\* ground truth poses
GroundTruths ==
    { <<0, 0, 0>>, <<1, 0, 1>>, <<0, 1, 0>>, <<0, 1, 1>>, <<0, 0, 2>>, <<1, 1, -1>> }

InitNEES ==
    /\ Q = Eye(3, 3)
    /\ R = Eye(2, 2)
    /\ do_asso = TRUE
    /\ eta \in NEESPoses
    /\ P \in NEESCovariances
    /\ status = "ok"
    /\ step = 0
    /\ last = NoCall

NEES(x_gt) ==
    /\ status = "ok"
    /\ step < MaxSteps
    /\ \E r \in {NEESes(SubSeq(eta, 1, 3), Slice(P, 1, 3, 1, 3), x_gt)} :
           /\ status' = IF r.ok THEN "ok" ELSE "aborted"
           /\ last' = [op |-> "NEESes", eta_in |-> eta, P_in |-> P, z_odo |-> <<>>,
                       z |-> <<>>, NIS |-> 0, a |-> <<>>, aug |-> NoAug, H |-> <<>>,
                       x_gt |-> x_gt, NEESes |-> r.NEESes]
    /\ step' = step + 1
    /\ UNCHANGED <<Q, R, do_asso, eta, P>>

NextNEES == \E x_gt \in GroundTruths : NEES(x_gt)

SpecNEES == InitNEES /\ [][NextNEES]_vars

----------------------------------------------------------------------------
(* Properties *)

Returned(op) == last.op = op /\ status = "ok"

\* number of entries of the association vector a that are the sentinel -1
Sentinels(a) == Cardinality({i \in 1..Len(a) : a[i] = NewLmk})

\* C1: every pair a predict or update call returns has eta of length 3 + 2L,
\* P square of the same dimension; predict keeps L, update never lowers it
C1_ShapeAndGrowth ==
    status = "ok" =>
        /\ Len(eta) >= 3 /\ (Len(eta) - 3) % 2 = 0
        /\ IsSquare(P) /\ Rows(P) = Len(eta)
        /\ last.op = "predict" => NumLmk(eta) = NumLmk(last.eta_in)
        /\ last.op = "update" => NumLmk(eta) >= NumLmk(last.eta_in)

\* an update, not the first call of the run, that returned two landmarks more
C1_Witness ==
    /\ Returned("update") /\ step > 1
    /\ NumLmk(eta) = NumLmk(last.eta_in) + 2

\* C2: add_landmarks with k measurements on a state of dimension n returns
\* eta of length n + 2k and P of shape (n + 2k) x (n + 2k), whose first n
\* entries and top-left n x n block are the input eta and P
C2_AugmentFrame ==
    (last.aug.called /\ last.aug.ok) =>
        LET n == Len(last.aug.eta_in)
            m == Len(last.aug.z)
        IN  /\ Len(last.aug.eta_out) = n + m
            /\ Rows(last.aug.P_out) = n + m /\ IsSquare(last.aug.P_out)
            /\ SubSeq(last.aug.eta_out, 1, n) = last.aug.eta_in
            /\ Slice(last.aug.P_out, 1, n, 1, n) = last.aug.P_in

\* add_landmarks returned on a map that already held a landmark
C2_Witness ==
    /\ last.aug.called /\ last.aug.ok
    /\ Len(last.aug.eta_in) > 3 /\ Len(last.aug.z) = 2
    /\ last.aug.P_out # last.aug.P_in

\* C3 as stated: for either value of do_asso, the landmark count update
\* returns is the input count plus the number of -1 entries of the returned a
C3_AllNewAdded ==
    Returned("update") => NumLmk(eta) = NumLmk(last.eta_in) + Sentinels(last.a)

\* C3 amended: with do_asso on, the landmark count update returns is the
\* input count plus the number of -1 entries of the returned a; with do_asso
\* off no landmark is created
C3_NewAddedWhenAssociating ==
    Returned("update") =>
        NumLmk(eta) = NumLmk(last.eta_in) + (IF do_asso THEN Sentinels(last.a) ELSE 0)

\* an update that returned with one measurement associated and one new
C3_Witness ==
    /\ Returned("update") /\ do_asso
    /\ \E i \in 1..Len(last.a) : last.a[i] = NewLmk
    /\ \E i \in 1..Len(last.a) : last.a[i] > NewLmk
    /\ NumLmk(eta) = NumLmk(last.eta_in) + 1

\* C4: update on an empty map with k measurements returns a of k entries, all
\* -1, NIS 1, and the input pose and pose covariance as eta[0:3], P[0:3, 0:3]
C4_EmptyMap ==
    (Returned("update") /\ NumLmk(last.eta_in) = 0) =>
        /\ Len(last.a) = Len(last.z)
        /\ \A i \in 1..Len(last.a) : last.a[i] = NewLmk
        /\ last.NIS = NeutralNIS
        /\ SubSeq(eta, 1, 3) = SubSeq(last.eta_in, 1, 3)
        /\ Slice(P, 1, 3, 1, 3) = Slice(last.P_in, 1, 3, 1, 3)

\* an update on an empty map that returned two new landmarks
C4_Witness ==
    /\ Returned("update") /\ NumLmk(last.eta_in) = 0
    /\ Len(last.z) = 2 /\ NumLmk(eta) = 2

\* C5: with L > 0 landmarks and no measurement associated, update returns,
\* with NIS 1 and the input eta and P as the first 3 + 2L entries and the
\* top-left block of what it returns
C5_NoMatch ==
    ( /\ last.op = "update" /\ do_asso
      /\ NumLmk(last.eta_in) > 0
      /\ \A i \in 1..Len(last.a) : last.a[i] = NewLmk ) =>
        LET n == Len(last.eta_in)
        IN  /\ status = "ok"
            /\ last.NIS = NeutralNIS
            /\ SubSeq(eta, 1, n) = last.eta_in
            /\ Slice(P, 1, n, 1, n) = last.P_in

\* an update with a landmark in the map whose only measurement was not
\* associated and became a landmark
C5_Witness ==
    /\ Returned("update") /\ do_asso
    /\ NumLmk(last.eta_in) > 0
    /\ Len(last.a) = 1 /\ last.a[1] = NewLmk
    /\ NumLmk(eta) = NumLmk(last.eta_in) + 1

\* C6: update with zero measurements on a symmetric, positive semi-definite
\* estimate returns the input (eta, P) and NIS 1, for every landmark count
\* and either value of do_asso
C6_ZeroMeasurements ==
    ( /\ last.op = "update" /\ Len(last.z) = 0
      /\ IsSymmetric(last.P_in) /\ AllEigNonNegative(last.P_in) ) =>
        /\ status = "ok"
        /\ eta = last.eta_in /\ P = last.P_in
        /\ last.NIS = NeutralNIS

\* C7: predict returns the input landmark entries eta[3:] and the input
\* map-map block P[3:, 3:]
C7_PredictFrame ==
    Returned("predict") =>
        LET n == Len(last.eta_in)
        IN  /\ Len(eta) = n
            /\ SubSeq(eta, 4, n) = SubSeq(last.eta_in, 4, n)
            /\ Slice(P, 4, n, 4, n) = Slice(last.P_in, 4, n, 4, n)

\* a predict on a map of two landmarks that moved the pose
C7_Witness ==
    /\ Returned("predict") /\ NumLmk(last.eta_in) = 2
    /\ SubSeq(last.eta_in, 4, 7) # <<0, 0, 0, 0>>
    /\ SubSeq(eta, 1, 3) # SubSeq(last.eta_in, 1, 3)

\* C8: after predict on a symmetric P the robot-map block is Fx times the
\* input robot-map block, the map-robot block is its transpose, and the
\* robot-robot block is Fx P_rr Fx' + Fu Q Fu' of the input robot-robot block
C8_CrossBlocks ==
    (Returned("predict") /\ IsSymmetric(last.P_in)) =>
        LET n == Len(last.eta_in)
            x == SubSeq(last.eta_in, 1, 3)
            FxM == Fx(x, last.z_odo)
            FuM == Fu(x, last.z_odo)
        IN  /\ Slice(P, 1, 3, 4, n) = MatMulOf(FxM, Slice(last.P_in, 1, 3, 4, n), 3, 3, n - 3)
            /\ Slice(P, 4, n, 1, 3) = TransposeOf(Slice(P, 1, 3, 4, n), 3, n - 3)
            /\ Slice(P, 1, 3, 1, 3) =
                 MatAdd(MatMulOf(MatMulOf(FxM, Slice(last.P_in, 1, 3, 1, 3), 3, 3, 3),
                                 TransposeOf(FxM, 3, 3), 3, 3, 3),
                        MatMulOf(MatMulOf(FuM, Q, 3, 3, 3), TransposeOf(FuM, 3, 3), 3, 3, 3))

\* a predict that changed a robot-map block
C8_Witness ==
    /\ Returned("predict") /\ NumLmk(last.eta_in) > 0
    /\ Slice(P, 1, 3, 4, Len(eta)) # Slice(last.P_in, 1, 3, 4, Len(eta))

\* C9: f is the rigid-body composition x' = x + u cos(psi) - v sin(psi),
\* y' = y + u sin(psi) + v cos(psi)
C9_RigidBody ==
    Returned("predict") =>
        LET x == last.eta_in[1]
            y == last.eta_in[2]
            psi == last.eta_in[3]
            u == last.z_odo[1]
            v == last.z_odo[2]
        IN  /\ eta[1] = x + u * Cos(psi) - v * Sin(psi)
            /\ eta[2] = y + u * Sin(psi) + v * Cos(psi)

\* C10: the heading predict returns lies in (-pi, pi]
C10_HeadingWrapped ==
    Returned("predict") => (eta[3] > -Pi /\ eta[3] <= Pi)

\* C11: whenever the heading variance P[2,2] is zero, NEESes returns and
\* the heading entry of what it returns is 1.0
C11_HeadingFallback ==
    (last.op = "NEESes" /\ last.P_in[3][3] = 0) =>
        /\ status = "ok"
        /\ last.NEESes[3] = Num(1, 1)

\* C12: the Jacobian h_jac returns for L landmarks has shape 2L x (3 + 2L)
\* and rows 2i, 2i+1 are zero in the columns of every other landmark j
C12_BlockSparse ==
    (last.op = "update" /\ NumLmk(last.eta_in) > 0) =>
        LET L == NumLmk(last.eta_in)
        IN  /\ Rows(last.H) = 2 * L
            /\ \A k \in 1..(2 * L) : Len(last.H[k]) = 3 + 2 * L
            /\ \A i \in 0..(L - 1) : \A j \in 0..(L - 1) :
                   i # j => \A k \in 1..2 : \A c \in 1..2 :
                               last.H[2 * i + k][3 + 2 * j + c] = 0

\* an update on two landmarks whose Jacobian has a nonzero entry in the
\* pose columns and in the own columns of each landmark
C12_Witness ==
    /\ last.op = "update" /\ NumLmk(last.eta_in) = 2
    /\ \A i \in 0..1 :
          /\ \E k \in 1..2 : \E c \in 1..3 : last.H[2 * i + k][c] # 0
          /\ \E k \in 1..2 : \E c \in 1..2 : last.H[2 * i + k][3 + 2 * i + c] # 0

\* C13: a predict call that aborts on one of its checks leaves the caller's
\* eta and P arrays with the values they had before the call
C13_AbortLeavesState ==
    (last.op = "predict" /\ status = "aborted") =>
        (eta = last.eta_in /\ P = last.P_in)

====
